---- MODULE Spec2Model ----
(***************************************************************************)
(* SQLWriteDetector (src/mcp_snowflake_server/write_detector.py).          *)
(*                                                                         *)
(* Text is a sequence of one-character strings, so that str.upper() and    *)
(* the substring test "kw in text" are computed and not assumed.  A token  *)
(* is a record [cls, ttype, value, tokens]: cls is the sqlparse class      *)
(* ("Token" for a leaf, anything else is a TokenList subclass), ttype the  *)
(* lexer's token type ("None" for a TokenList), value the raw text of a    *)
(* leaf and tokens the children of a TokenList.                            *)
(***************************************************************************)
EXTENDS Integers, Sequences, FiniteSets, TLC

VARIABLES detector, pc, sql_query, parsed, idx, found_operations,
          has_cte_write, returned

vars == <<detector, pc, sql_query, parsed, idx, found_operations,
          has_cte_write, returned>>

(* ------------------------------ bounds --------------------------------- *)

MaxStatements == 2

MaxDepth == 3

(* ------------------------------- text ---------------------------------- *)

Lowercase == <<"a","b","c","d","e","f","g","h","i","j","k","l","m",
               "n","o","p","q","r","s","t","u","v","w","x","y","z">>

Uppercase == <<"A","B","C","D","E","F","G","H","I","J","K","L","M",
               "N","O","P","Q","R","S","T","U","V","W","X","Y","Z">>

Other == {" ", "(", ")", "-", "_"}

Characters ==
    {Lowercase[k] : k \in DOMAIN Lowercase} \cup {Uppercase[k] : k \in DOMAIN Uppercase}
    \cup Other

UpperOf ==
    [ch \in Characters |->
        IF \E k \in DOMAIN Lowercase : Lowercase[k] = ch
        THEN Uppercase[CHOOSE k \in DOMAIN Lowercase : Lowercase[k] = ch]
        ELSE ch]

upper_char(ch) == UpperOf[ch]

upper(s) == [k \in 1..Len(s) |-> upper_char(s[k])]

contains(kw, s) ==
    \E k \in 1..(Len(s) - Len(kw) + 1) :
        s[k] = kw[1] /\ SubSeq(s, k, k + Len(kw) - 1) = kw

(* --------------------------- keyword sets ------------------------------ *)

DmlWriteKeywords ==
    { <<"I","N","S","E","R","T">>, <<"U","P","D","A","T","E">>,
      <<"D","E","L","E","T","E">>, <<"M","E","R","G","E">>,
      <<"U","P","S","E","R","T">>, <<"R","E","P","L","A","C","E">> }

DdlKeywords ==
    { <<"C","R","E","A","T","E">>, <<"A","L","T","E","R">>,
      <<"D","R","O","P">>, <<"T","R","U","N","C","A","T","E">>,
      <<"R","E","N","A","M","E">> }

DclKeywords == { <<"G","R","A","N","T">>, <<"R","E","V","O","K","E">> }

CTE_WRITE == <<"C","T","E","_","W","R","I","T","E">>

With == <<"W","I","T","H">>

SQLWriteDetector ==
    [ dml_write_keywords |-> DmlWriteKeywords,
      ddl_keywords       |-> DdlKeywords,
      dcl_keywords       |-> DclKeywords,
      write_keywords     |-> DmlWriteKeywords \cup DdlKeywords \cup DclKeywords ]

(* ------------------------ the token interface -------------------------- *)

Token(ttype, value) ==
    [cls |-> "Token", ttype |-> ttype, value |-> value, tokens |-> << >>]

TokenList(cls, tokens) ==
    [cls |-> cls, ttype |-> "None", value |-> << >>, tokens |-> tokens]

isTokenList(token) == token.cls # "Token"

is_keyword(token) ==
    token.ttype \in {"Keyword", "Keyword.DML", "Keyword.DDL",
                     "Keyword.CTE", "Keyword.DCL"}

is_whitespace(token) == token.ttype \in {"Whitespace", "Newline"}

RECURSIVE str(_)
RECURSIVE join(_)

str(token) == IF isTokenList(token) THEN join(token.tokens) ELSE token.value

join(tokens) ==
    IF tokens = << >> THEN << >> ELSE str(Head(tokens)) \o join(Tail(tokens))

normalized(token) ==
    IF is_keyword(token) THEN upper(str(token)) ELSE str(token)

(* ---------------------------- the detector ----------------------------- *)

keyword_ttype(token) ==
    token.ttype \in {"Keyword", "Keyword.DML", "Keyword.DDL"}

is_with(token) == is_keyword(token) /\ normalized(token) = With

has_cte(statement) ==
    \E k \in DOMAIN statement.tokens : is_with(statement.tokens[k])

RECURSIVE find_write_operations_in_token(_, _)

find_write_operations_in_token(self, token) ==
    LET token_str == upper(normalized(token))
        own == IF /\ (keyword_ttype(token) \/ is_keyword(token))
                  /\ token_str \in self.write_keywords
               THEN {token_str} ELSE {}
        sub == {write_kw \in self.write_keywords : contains(write_kw, token_str)}
        kids == IF isTokenList(token)
                THEN UNION {find_write_operations_in_token(self, token.tokens[k]) :
                                k \in DOMAIN token.tokens}
                ELSE {}
    IN  own \cup sub \cup kids

(* Fault: the loop returns on the first token after the WITH, write or not. *)
analyze_cte_first_only(self, tokens, k, in_cte) ==
    \E w \in DOMAIN tokens :
        /\ is_with(tokens[w])
        /\ \A j \in 1..(w - 1) : ~is_with(tokens[j])
        /\ w + 1 <= Len(tokens)
        /\ ~is_with(tokens[w + 1])
        /\ find_write_operations_in_token(self, tokens[w + 1]) # {}

RECURSIVE analyze_cte_from(_, _, _, _)

analyze_cte_from(self, tokens, k, in_cte) ==
    IF k > Len(tokens) THEN FALSE
    ELSE IF is_with(tokens[k]) THEN analyze_cte_from(self, tokens, k + 1, TRUE)
    ELSE IF in_cte /\ find_write_operations_in_token(self, tokens[k]) # {} THEN TRUE
    ELSE analyze_cte_from(self, tokens, k + 1, in_cte)

analyze_cte(self, statement) ==
    analyze_cte_from(self, statement.tokens, 1, FALSE)

skipped(token) == is_whitespace(token) \/ token.ttype = "Comment"

(* Fault: child tokens are not searched. *)
find_write_operations_flat(self, statement) ==
    UNION { IF skipped(statement.tokens[k]) THEN {}
            ELSE IF /\ (keyword_ttype(statement.tokens[k]) \/ is_keyword(statement.tokens[k]))
                    /\ upper(normalized(statement.tokens[k])) \in self.write_keywords
                 THEN {upper(normalized(statement.tokens[k]))} ELSE {}
            : k \in DOMAIN statement.tokens }

(* Fault: the statement search uses the substring-matching helper of the CTE scan. *)
find_write_operations_by_substring(self, statement) ==
    UNION { IF skipped(statement.tokens[k]) THEN {}
            ELSE find_write_operations_in_token(self, statement.tokens[k])
            : k \in DOMAIN statement.tokens }

RECURSIVE find_write_operations(_, _)

find_write_operations(self, statement) ==
    UNION { IF skipped(statement.tokens[k]) THEN {}
            ELSE LET token == statement.tokens[k]
                     own == IF keyword_ttype(token) \/ is_keyword(token)
                            THEN LET text == upper(normalized(token))
                                 IN  IF text \in self.write_keywords
                                     THEN {text} ELSE {}
                            ELSE {}
                     child_ops == IF isTokenList(token)
                                  THEN find_write_operations(self, token)
                                  ELSE {}
                 IN  own \cup child_ops
            : k \in DOMAIN statement.tokens }

(* Fault: a CTE write sets the flag but the marker is not added. *)
loop_body_no_marker(self, statement, found, cte) ==
    [ found_operations |-> found \cup find_write_operations(self, statement),
      has_cte_write    |-> cte \/ (has_cte(statement) /\ analyze_cte(self, statement)) ]

(* Fault: each statement's findings replace those of the statements before it. *)
loop_body_overwrite(self, statement, found, cte) ==
    [ found_operations |-> (IF has_cte(statement) /\ analyze_cte(self, statement)
                            THEN {CTE_WRITE} ELSE {})
                           \cup find_write_operations(self, statement),
      has_cte_write    |-> has_cte(statement) /\ analyze_cte(self, statement) ]

(* One pass of the loop body of analyze_query over one statement. *)
loop_body(self, statement, found, cte) ==
    LET cte_write  == has_cte(statement) /\ analyze_cte(self, statement)
        operations == find_write_operations(self, statement)
    IN  [ found_operations |-> found \cup (IF cte_write THEN {CTE_WRITE} ELSE {})
                                     \cup operations,
          has_cte_write    |-> cte \/ cte_write ]

NoWrite ==
    [contains_write |-> FALSE, write_operations |-> {}, has_cte_write |-> FALSE]

result_of(found, cte) ==
    [ contains_write   |-> (found # {}) \/ cte,
      write_operations |-> found,
      has_cte_write    |-> cte ]

RECURSIVE analyze_loop(_, _, _, _, _)

analyze_loop(self, statements, k, found, cte) ==
    IF k > Len(statements) THEN result_of(found, cte)
    ELSE LET acc == loop_body(self, statements[k], found, cte)
         IN  analyze_loop(self, statements, k + 1,
                          acc.found_operations, acc.has_cte_write)

(* What one whole call hands back: << >> when sqlparse.parse raised (the   *)
(* exception leaves analyze_query), otherwise the one returned dictionary. *)
analyze_query(self, query) ==
    IF query.error THEN << >>
    ELSE IF query.statements = << >> THEN <<NoWrite>>
    ELSE <<analyze_loop(self, query.statements, 1, {}, FALSE)>>

(* ------------------- what sqlparse.parse hands back -------------------- *)

WS == Token("Whitespace", <<" ">>)

LP == Token("Punctuation", <<"(">>)

RP == Token("Punctuation", <<")">>)

kw_with == Token("Keyword.CTE", <<"w","i","t","h">>)

kw_as == Token("Keyword", <<"a","s">>)

kw_select == Token("Keyword.DML", <<"s","e","l","e","c","t">>)

kw_insert == Token("Keyword.DML", <<"i","n","s","e","r","t">>)

kw_update == Token("Keyword.DML", <<"U","p","d","a","t","e">>)

kw_delete == Token("Keyword.DML", <<"d","e","l","e","t","e">>)

kw_DROP == Token("Keyword.DDL", <<"D","R","O","P">>)

kw_truncate == Token("Keyword", <<"t","r","u","n","c","a","t","e">>)

kw_grant == Token("Keyword.DCL", <<"g","r","a","n","t">>)

name_t == Token("Name", <<"t">>)

name_c == Token("Name", <<"c">>)

name_updated == Token("Name", <<"u","p","d","a","t","e","d">>)

comment_single == Token("Comment.Single", <<"-","-","d","r","o","p">>)

comment_plain == Token("Comment", <<"-","-","a","l","t","e","r">>)

Comment == TokenList("Comment", <<comment_single>>)

Statement(tokens) == TokenList("Statement", tokens)

RECURSIVE Nested(_)

Nested(d) ==
    IF d = 0 THEN kw_delete ELSE TokenList("Parenthesis", <<LP, Nested(d - 1), RP>>)

(* WITH c AS ( body ) followed by the main query *)
CteStatement(body, main) ==
    Statement(<<kw_with, WS,
                TokenList("Identifier",
                    <<name_c, WS, kw_as, WS,
                      TokenList("Parenthesis", <<LP>> \o body \o <<RP>>)>>),
                WS>> \o main)

Statements ==
    { Statement(<<kw_select, WS, name_t>>),
      Statement(<<kw_select, WS, name_updated>>),
      Statement(<<kw_insert, WS, name_t>>),
      Statement(<<kw_DROP, WS, name_t>>),
      Statement(<<kw_truncate, WS, name_t>>),
      Statement(<<kw_grant, WS, name_t>>),
      Statement(<<WS, Comment>>),
      Statement(<<kw_select, WS, name_t, WS, comment_plain>>),
      CteStatement(<<kw_select, WS, name_t>>, <<kw_select, WS, name_c>>),
      CteStatement(<<kw_delete, WS, name_t>>, <<kw_select, WS, name_c>>),
      CteStatement(<<kw_select, WS, name_t>>, <<kw_update, WS, name_t>>),
      CteStatement(<<kw_select, WS, name_updated>>, <<kw_select, WS, name_c>>),
      CteStatement(<<kw_select, WS, name_t>>, <<Comment, kw_select, WS, name_c>>),
      CteStatement(<<kw_select, WS, name_t>>, <<kw_select, WS, Nested(1)>>) }
    \cup { Statement(<<kw_select, WS, Nested(d)>>) : d \in 1..MaxDepth }

ConcurrentStatements ==
    { Statement(<<kw_select, WS, name_t>>),
      Statement(<<kw_insert, WS, name_t>>),
      CteStatement(<<kw_delete, WS, name_t>>, <<kw_select, WS, name_c>>) }

ParseError == [error |-> TRUE, statements |-> << >>]

Parsed(statements) == [error |-> FALSE, statements |-> statements]

Queries(S) ==
    {ParseError} \cup
    { Parsed(q) : q \in UNION { [1..n -> S] : n \in 0..MaxStatements } }

AllQueries == Queries(Statements)

ConcurrentQueries == Queries(ConcurrentStatements)

(* ------------------------------ the calls ------------------------------ *)

Callers == {"a", "b"}

Init ==
    /\ detector = SQLWriteDetector
    /\ pc = [c \in Callers |-> "idle"]
    /\ sql_query = [c \in Callers |-> Parsed(<< >>)]
    /\ parsed = [c \in Callers |-> << >>]
    /\ idx = [c \in Callers |-> 0]
    /\ found_operations = [c \in Callers |-> {}]
    /\ has_cte_write = [c \in Callers |-> FALSE]
    /\ returned = [c \in Callers |-> << >>]

Call(c, queries) ==
    /\ pc[c] = "idle"
    /\ \E query \in queries : sql_query' = [sql_query EXCEPT ![c] = query]
    /\ pc' = [pc EXCEPT ![c] = "parse"]
    /\ UNCHANGED <<detector, parsed, idx, found_operations, has_cte_write, returned>>

(* Fault: a parse error is swallowed and treated as "nothing parsed". *)
ParseSwallowsError(c) ==
    /\ pc[c] = "parse"
    /\ IF sql_query[c].error \/ sql_query[c].statements = << >>
       THEN /\ returned' = [returned EXCEPT ![c] = <<NoWrite>>]
            /\ pc' = [pc EXCEPT ![c] = "done"]
            /\ UNCHANGED <<parsed, idx, found_operations, has_cte_write>>
       ELSE /\ parsed' = [parsed EXCEPT ![c] = sql_query[c].statements]
            /\ idx' = [idx EXCEPT ![c] = 1]
            /\ found_operations' = [found_operations EXCEPT ![c] = {}]
            /\ has_cte_write' = [has_cte_write EXCEPT ![c] = FALSE]
            /\ pc' = [pc EXCEPT ![c] = "loop"]
            /\ UNCHANGED returned
    /\ UNCHANGED <<detector, sql_query>>

Parse(c) ==
    /\ pc[c] = "parse"
    /\ IF sql_query[c].error
       THEN /\ pc' = [pc EXCEPT ![c] = "raised"]
            /\ UNCHANGED <<parsed, idx, found_operations, has_cte_write, returned>>
       ELSE IF sql_query[c].statements = << >>
       THEN /\ returned' = [returned EXCEPT ![c] = <<NoWrite>>]
            /\ pc' = [pc EXCEPT ![c] = "done"]
            /\ UNCHANGED <<parsed, idx, found_operations, has_cte_write>>
       ELSE /\ parsed' = [parsed EXCEPT ![c] = sql_query[c].statements]
            /\ idx' = [idx EXCEPT ![c] = 1]
            /\ found_operations' = [found_operations EXCEPT ![c] = {}]
            /\ has_cte_write' = [has_cte_write EXCEPT ![c] = FALSE]
            /\ pc' = [pc EXCEPT ![c] = "loop"]
            /\ UNCHANGED returned
    /\ UNCHANGED <<detector, sql_query>>

(* Fault: the accumulators are attributes of the detector, one copy for all callers. *)
AnalyzeStatementShared(c) ==
    /\ pc[c] = "loop"
    /\ idx[c] <= Len(parsed[c])
    /\ LET acc == loop_body(detector, parsed[c][idx[c]],
                            found_operations[c], has_cte_write[c])
       IN  /\ found_operations' = [d \in Callers |-> acc.found_operations]
           /\ has_cte_write' = [d \in Callers |-> acc.has_cte_write]
    /\ idx' = [idx EXCEPT ![c] = idx[c] + 1]
    /\ UNCHANGED <<detector, pc, sql_query, parsed, returned>>

AnalyzeStatement(c) ==
    /\ pc[c] = "loop"
    /\ idx[c] <= Len(parsed[c])
    /\ LET acc == loop_body(detector, parsed[c][idx[c]],
                            found_operations[c], has_cte_write[c])
       IN  /\ found_operations' = [found_operations EXCEPT ![c] = acc.found_operations]
           /\ has_cte_write' = [has_cte_write EXCEPT ![c] = acc.has_cte_write]
    /\ idx' = [idx EXCEPT ![c] = idx[c] + 1]
    /\ UNCHANGED <<detector, pc, sql_query, parsed, returned>>

Return(c) ==
    /\ pc[c] = "loop"
    /\ idx[c] > Len(parsed[c])
    /\ returned' = [returned EXCEPT ![c] =
                        <<result_of(found_operations[c], has_cte_write[c])>>]
    /\ pc' = [pc EXCEPT ![c] = "done"]
    /\ UNCHANGED <<detector, sql_query, parsed, idx, found_operations, has_cte_write>>

(* The caller has consumed the outcome; the locals of the call are gone. *)
Release(c) ==
    /\ pc[c] \in {"done", "raised"}
    /\ pc' = [pc EXCEPT ![c] = "idle"]
    /\ sql_query' = [sql_query EXCEPT ![c] = Parsed(<< >>)]
    /\ parsed' = [parsed EXCEPT ![c] = << >>]
    /\ idx' = [idx EXCEPT ![c] = 0]
    /\ found_operations' = [found_operations EXCEPT ![c] = {}]
    /\ has_cte_write' = [has_cte_write EXCEPT ![c] = FALSE]
    /\ returned' = [returned EXCEPT ![c] = << >>]
    /\ UNCHANGED detector

(* One caller, every modelled query. *)
Next ==
    \/ Call("a", AllQueries)
    \/ Parse("a")
    \/ AnalyzeStatement("a")
    \/ Return("a")
    \/ Release("a")

Spec == Init /\ [][Next]_vars

(* Two callers on one detector, their steps interleaved. *)
NextConcurrent ==
    \E c \in Callers :
        \/ Call(c, ConcurrentQueries)
        \/ Parse(c)
        \/ AnalyzeStatement(c)
        \/ Return(c)
        \/ Release(c)

SpecConcurrent == Init /\ [][NextConcurrent]_vars

(* ------------------- vocabulary of the properties ---------------------- *)

WriteKeywordSet == DmlWriteKeywords \cup DdlKeywords \cup DclKeywords

Done(c) == pc[c] = "done"

Result(c) == returned[c][1]

StatementsOf(c) == sql_query[c].statements

KeywordClassified(token) ==
    token.ttype \in {"Keyword", "Keyword.DML", "Keyword.DDL"} \/ is_keyword(token)

IsWriteKeywordToken(token) ==
    KeywordClassified(token) /\ upper(normalized(token)) \in WriteKeywordSet

IsComment(token) ==
    token.cls = "Comment" \/ token.ttype \in {"Comment", "Comment.Single"}

TextHasWrite(token) ==
    \E kw \in WriteKeywordSet : contains(kw, upper(str(token)))

RECURSIVE Subtree(_)

(* a token and every token below it *)
Subtree(token) ==
    {token} \cup UNION { Subtree(token.tokens[k]) : k \in DOMAIN token.tokens }

RECURSIVE Reached(_)

(* the tokens below `token` that no skipped token hides *)
Reached(token) ==
    UNION { IF is_whitespace(token.tokens[k]) \/ token.tokens[k].ttype = "Comment"
            THEN {}
            ELSE {token.tokens[k]} \cup Reached(token.tokens[k])
            : k \in DOMAIN token.tokens }

(* the top-level tokens of a statement that follow a top-level WITH *)
AfterWith(statement) ==
    { statement.tokens[k] : k \in
        { j \in DOMAIN statement.tokens :
            \E w \in 1..(j - 1) :
                /\ is_keyword(statement.tokens[w])
                /\ normalized(statement.tokens[w]) = With } }

LowerOf ==
    [ch \in Characters |->
        IF \E k \in DOMAIN Uppercase : Uppercase[k] = ch
        THEN Lowercase[CHOOSE k \in DOMAIN Uppercase : Uppercase[k] = ch]
        ELSE ch]

lower_char(ch) == LowerOf[ch]

RECURSIVE Recase(_, _)

(* the same token tree, its text written in upper or in lower case *)
Recase(token, to_upper) ==
    [ cls    |-> token.cls,
      ttype  |-> token.ttype,
      value  |-> [k \in 1..Len(token.value) |->
                     IF to_upper THEN upper_char(token.value[k])
                     ELSE lower_char(token.value[k])],
      tokens |-> [k \in 1..Len(token.tokens) |-> Recase(token.tokens[k], to_upper)] ]

RecaseQuery(query, to_upper) ==
    [ error      |-> query.error,
      statements |-> [k \in 1..Len(query.statements) |->
                         Recase(query.statements[k], to_upper)] ]

(* ------------------------------- C1 ------------------------------------ *)

(* C1: every keyword-classified token reached at any nesting depth whose   *)
(* upper-cased normalized text is a write keyword K makes the result       *)
(* contains_write = TRUE with K in write_operations, and writing the       *)
(* query's text in another letter case does not change the result.         *)
C1_WriteKeywordDetected ==
    \A c \in Callers : Done(c) =>
        /\ \A k \in DOMAIN StatementsOf(c) :
             \A token \in Reached(StatementsOf(c)[k]) :
                IsWriteKeywordToken(token) =>
                    /\ Result(c).contains_write
                    /\ upper(normalized(token)) \in Result(c).write_operations
        /\ returned[c] = analyze_query(SQLWriteDetector, RecaseQuery(sql_query[c], TRUE))
        /\ returned[c] = analyze_query(SQLWriteDetector, RecaseQuery(sql_query[c], FALSE))

(* a lower-case write keyword, MaxDepth parentheses deep, has been reported *)
C1_Witness ==
    /\ Done("a")
    /\ StatementsOf("a") = <<Statement(<<kw_select, WS, Nested(MaxDepth)>>)>>
    /\ kw_delete \in Reached(StatementsOf("a")[1])
    /\ kw_delete.value # upper(kw_delete.value)
    /\ Result("a").write_operations = {upper(kw_delete.value)}

(* ------------------------------- C2 ------------------------------------ *)

NoWriteKeywordToken(c) ==
    \A k \in DOMAIN StatementsOf(c) :
        \A token \in Subtree(StatementsOf(c)[k]) : ~IsWriteKeywordToken(token)

(* some statement has a top-level WITH followed by a token whose text,     *)
(* upper-cased, has a write keyword as a substring                         *)
WriteTextAfterWith(c) ==
    \E k \in DOMAIN StatementsOf(c) :
        \E token \in AfterWith(StatementsOf(c)[k]) : TextHasWrite(token)

(* C2 as stated: when no keyword-classified token at any depth is a write  *)
(* keyword, the result is contains_write = FALSE, has_cte_write = FALSE    *)
(* and write_operations = {}.                                              *)
C2_ReadOnlyIsClean ==
    \A c \in Callers : Done(c) /\ NoWriteKeywordToken(c) => Result(c) = NoWrite

(* C2 amended: when no keyword-classified token at any depth is a write    *)
(* keyword, write_operations holds no write keyword, and the result is     *)
(* all-false/empty unless some statement has a top-level WITH followed by  *)
(* a token whose upper-cased text has a write keyword as a substring; in   *)
(* that case has_cte_write = contains_write = TRUE and write_operations =  *)
(* {"CTE_WRITE"}.                                                          *)
C2_ReadOnlyUpToSubstring ==
    \A c \in Callers : Done(c) /\ NoWriteKeywordToken(c) =>
        IF WriteTextAfterWith(c)
        THEN Result(c) = [ contains_write   |-> TRUE,
                           write_operations |-> {CTE_WRITE},
                           has_cte_write    |-> TRUE ]
        ELSE Result(c) = NoWrite

(* a read-only CTE statement and an identifier spelled like a write        *)
(* keyword outside any WITH have been analysed as clean                    *)
C2_Witness ==
    /\ Done("a")
    /\ NoWriteKeywordToken("a")
    /\ ~WriteTextAfterWith("a")
    /\ \E k \in DOMAIN StatementsOf("a") : AfterWith(StatementsOf("a")[k]) # {}
    /\ \E k \in DOMAIN StatementsOf("a") :
          \E token \in Subtree(StatementsOf("a")[k]) : TextHasWrite(token)
    /\ Result("a") = NoWrite

(* ------------------------------- C3 ------------------------------------ *)

InsideAfterWith(statement) ==
    UNION { Subtree(top) \ {top} : top \in AfterWith(statement) }

(* C4: has_cte_write is TRUE only if a write operation was found strictly  *)
(* inside a WITH-clause body; a write that lies only in the main query     *)
(* after the CTE definitions never gives has_cte_write = TRUE.  ("Inside"  *)
(* is read generously: any leaf below a container after the WITH whose     *)
(* text holds a write keyword counts.)                                     *)
C4_CteWriteOnlyInsideBody ==
    \A c \in Callers : Done(c) /\ Result(c).has_cte_write =>
        \E k \in DOMAIN StatementsOf(c) :
            \E token \in InsideAfterWith(StatementsOf(c)[k]) :
                ~isTokenList(token) /\ TextHasWrite(token)

(* ------------------------------- C5 ------------------------------------ *)

(* C5: in every returned result contains_write is TRUE iff                 *)
(* write_operations is non-empty or has_cte_write is TRUE, and             *)
(* has_cte_write is TRUE iff "CTE_WRITE" is in write_operations.           *)
C5_ResultConsistent ==
    \A c \in Callers : returned[c] # << >> =>
        /\ Result(c).contains_write <=>
              (Result(c).write_operations # {} \/ Result(c).has_cte_write)
        /\ Result(c).has_cte_write <=> (CTE_WRITE \in Result(c).write_operations)

(* a result with a CTE write has been returned after a statement without *)
C5_Witness ==
    /\ Done("a")
    /\ Len(StatementsOf("a")) = 2
    /\ ~has_cte(StatementsOf("a")[2])
    /\ Result("a").has_cte_write
    /\ CTE_WRITE \in Result("a").write_operations

(* ------------------------------- C6 ------------------------------------ *)

(* C6: when the tokenizer raises a hard parse error, analyze_query         *)
(* returns no result at all for that input (so none with contains_write =  *)
(* FALSE): the call ends in the raised outcome.                            *)
C6_ParseErrorPropagates ==
    \A c \in Callers : sql_query[c].error =>
        /\ returned[c] = << >>
        /\ pc[c] \in {"parse", "raised"}

(* the parse error has left analyze_query *)
C6_Witness == pc["a"] = "raised" /\ sql_query["a"].error /\ returned["a"] = << >>

(* ------------------------------- C7 ------------------------------------ *)

(* the result of analysing one statement alone *)
Alone(statement) == analyze_query(SQLWriteDetector, Parsed(<<statement>>))[1]

Merged(statements) ==
    LET alone == [k \in DOMAIN statements |-> Alone(statements[k])]
    IN  [ contains_write   |-> \E k \in DOMAIN statements : alone[k].contains_write,
          write_operations |-> UNION { alone[k].write_operations : k \in DOMAIN statements },
          has_cte_write    |-> \E k \in DOMAIN statements : alone[k].has_cte_write ]

IsPermutation(s, t) ==
    /\ Len(s) = Len(t)
    /\ \E f \in [DOMAIN s -> DOMAIN s] :
          /\ \A j, k \in DOMAIN s : f[j] = f[k] => j = k
          /\ \A k \in DOMAIN s : t[k] = s[f[k]]

(* C7: the result for a sequence of statements is the merge of the results *)
(* of each statement analysed alone (union of the operation sets, OR of    *)
(* the flags), and two calls whose statements are a permutation of each    *)
(* other return the same result.                                           *)
C7_MergeOfStatements ==
    /\ \A c \in Callers : Done(c) => Result(c) = Merged(StatementsOf(c))
    /\ \A c, d \in Callers :
          /\ Done(c) /\ Done(d)
          /\ IsPermutation(StatementsOf(c), StatementsOf(d))
          => returned[c] = returned[d]

(* two calls have returned for the same two different statements in        *)
(* opposite orders, one of them a write                                    *)
C7_Witness ==
    /\ Done("a") /\ Done("b")
    /\ Len(StatementsOf("a")) = 2
    /\ StatementsOf("a")[1] # StatementsOf("a")[2]
    /\ StatementsOf("b") = <<StatementsOf("a")[2], StatementsOf("a")[1]>>
    /\ Alone(StatementsOf("a")[1]) # Alone(StatementsOf("a")[2])
    /\ Result("a").contains_write

(* ------------------------------- C8 ------------------------------------ *)

(* C8: analyze_query never changes the detector: write_keywords stays the  *)
(* union of the three sets fixed at construction whatever calls have run   *)
(* or are running, every call returns what a call with the same input on   *)
(* a fresh detector returns, and two calls with the same input return      *)
(* identical results.                                                      *)
C8_DetectorUnchanged ==
    /\ detector.dml_write_keywords = DmlWriteKeywords
    /\ detector.ddl_keywords = DdlKeywords
    /\ detector.dcl_keywords = DclKeywords
    /\ detector.write_keywords = DmlWriteKeywords \cup DdlKeywords \cup DclKeywords
    /\ \A c \in Callers :
          pc[c] \in {"done", "raised"} =>
              returned[c] = analyze_query(SQLWriteDetector, sql_query[c])
    /\ \A c, d \in Callers :
          /\ pc[c] \in {"done", "raised"} /\ pc[d] \in {"done", "raised"}
          /\ sql_query[c] = sql_query[d]
          => returned[c] = returned[d]

(* one call has returned a write while the other caller, with a different  *)
(* query, is in the middle of its loop                                     *)
C8_Witness ==
    /\ Done("a")
    /\ Result("a").contains_write
    /\ pc["b"] = "loop"
    /\ idx["b"] = 2
    /\ sql_query["b"] # sql_query["a"]
    /\ found_operations["b"] # Result("a").write_operations

(* ------------------------------- C9 ------------------------------------ *)

(* the query holds no statement: nothing was parsed, or what was parsed    *)
(* holds whitespace and comments only                                      *)
HoldsNoStatement(c) ==
    \A k \in DOMAIN StatementsOf(c) :
        \A token \in Subtree(StatementsOf(c)[k]) \ {StatementsOf(c)[k]} :
            is_whitespace(token) \/ IsComment(token)

(* C9: an input that holds no statement (empty, whitespace only, comments  *)
(* only) gives contains_write = FALSE, write_operations = {} and           *)
(* has_cte_write = FALSE.                                                  *)
C9_NoStatementNoWrite ==
    \A c \in Callers : Done(c) /\ HoldsNoStatement(c) => Result(c) = NoWrite

(* a comment-only input whose comment spells a write keyword has been      *)
(* analysed                                                                *)
C9_Witness ==
    /\ Done("a")
    /\ HoldsNoStatement("a")
    /\ StatementsOf("a") # << >>
    /\ TextHasWrite(StatementsOf("a")[1])
    /\ Result("a") = NoWrite

(* ------------------------------- C10 ----------------------------------- *)

RECURSIVE StripComments(_)

(* the same token tree without its comment tokens *)
StripComments(token) ==
    [ cls    |-> token.cls,
      ttype  |-> token.ttype,
      value  |-> token.value,
      tokens |-> LET keep == SelectSeq(token.tokens, LAMBDA t : ~IsComment(t))
                 IN  [k \in 1..Len(keep) |-> StripComments(keep[k])] ]

StripQuery(query) ==
    [ error      |-> query.error,
      statements |-> [k \in 1..Len(query.statements) |->
                         StripComments(query.statements[k])] ]

(* C10: comment tokens are skipped entirely, containers included: the      *)
(* result of a call equals the result for the same input with its comment  *)
(* tokens removed, so text inside a comment never makes contains_write or  *)
(* has_cte_write TRUE.                                                     *)
C10_CommentsIgnored ==
    \A c \in Callers : Done(c) =>
        returned[c] = analyze_query(SQLWriteDetector, StripQuery(sql_query[c]))

====
